---- MODULE Spec2Model ----
(***************************************************************************)
(* A model of catalyst's ExchangeBundle (catalyst/exchange/                *)
(* exchange_bundle.py): the reader/writer handle cache, the chunk planner, *)
(* the chunk merge with its write retry, the ingestion driver and the      *)
(* history reads that backfill the store.                                   *)
(*                                                                          *)
(* Time is a tick count.  A day has TicksPerDay ticks (tick 0 of a day is   *)
(* midnight, the last tick of a day is 23:59), a month has MonthDays days, *)
(* a year YearMonths months, and the calendar spans NumYears years.        *)
(***************************************************************************)
EXTENDS Integers, Sequences, FiniteSets, TLC

VARIABLES
    catalog,    \* sid -> asset (sid, start_date, end_minute, end_daily)
    store,      \* frequency -> the bundle directory: dir, meta, rows, nans
    staging,    \* the staging directories (temp bundles) present on disk
    aux,        \* symbols.json and the temp_bundles folder
    readers,    \* self._readers: path -> reader or None
    writers,    \* self._writers: path -> writer
    wid,        \* the next writer handle identity
    trace,      \* what the last call did, in order
    last,       \* the last call: its name, arguments and outcome
    prev,       \* the call before it, when both are ingest_assets calls
    nops,       \* calls made so far, clean apart
    ncleans     \* calls of clean made so far

vars == <<catalog, store, staging, aux, readers, writers, wid, trace, last,
          prev, nops, ncleans>>

----------------------------------------------------------------------------
(* Bounds of the model *)

TicksPerDay == 2
MonthDays == 2
YearMonths == 2
NumYears == 2
MaxOps == 2
MaxCleans == 1
MaxGapIdx == 3

None == -99

NumDays == NumYears * YearMonths * MonthDays
LastTick == NumDays * TicksPerDay - 1
Ticks == 0 .. LastTick
Freqs == {"minute", "daily"}
Sids == {1, 2}

----------------------------------------------------------------------------
(* The calendar and the period arithmetic of bundle_utils *)

DayOf(t) == t \div TicksPerDay
Midnight(d) == d * TicksPerDay
IsSession(t) == t % TicksPerDay = 0
MonthOf(t) == DayOf(t) \div MonthDays
YearOf(t) == MonthOf(t) \div YearMonths

first_session == Midnight(0)

sessions_in_range(a, b) == {t \in Ticks : IsSession(t) /\ a <= t /\ t <= b}

minutes_in_range(a, b) == {t \in Ticks : a <= t /\ t <= b}

get_delta(n, f) == IF f = "minute" THEN n ELSE n * TicksPerDay

get_start_dt(end_dt, bar_count, f) == end_dt - get_delta(bar_count, f)

\* month start is midnight of its first day, month end 23:59 of its last day
get_month_start_end(dt) ==
    <<Midnight(MonthOf(dt) * MonthDays),
      Midnight((MonthOf(dt) + 1) * MonthDays) - 1>>

\* year start and year end are the first and the last session of the year
get_year_start_end(dt) ==
    <<Midnight(YearOf(dt) * YearMonths * MonthDays),
      Midnight((YearOf(dt) + 1) * YearMonths * MonthDays - 1)>>

\* '{}-{:02d}'.format(dt.year, dt.month) / '{}'.format(dt.year)
PeriodLabel(dt, f) ==
    IF f = "minute" THEN <<YearOf(dt), (MonthOf(dt) % YearMonths) + 1>>
    ELSE <<YearOf(dt)>>

\* dt.replace(hour=23, minute=59)
LastMinuteOfDay(dt) == Midnight(DayOf(dt)) + TicksPerDay - 1

get_calendar_periods_range(start_dt, end_dt, f) ==
    IF f = "minute" THEN minutes_in_range(start_dt, end_dt)
    ELSE sessions_in_range(start_dt, end_dt)

----------------------------------------------------------------------------
(* Paths and handles *)

BundlePath(f) == <<"bundle", f>>
get_bcolz_chunk(sid, f, period) == <<"temp", sid, f, period>>

NoneReader == [kind |-> "None"]
Reader(path, m) == [kind |-> "Reader", rootdir |-> path, meta |-> m]
Writer(id, path, s, e) ==
    [id |-> id, rootdir |-> path, start_session |-> s, end_session |-> e]

Ev(e, id, out, p) == [e |-> e, id |-> id, out |-> out, p |-> p]

World == [store |-> store, staging |-> staging, aux |-> aux,
          readers |-> readers, writers |-> writers, wid |-> wid,
          trace |-> <<>>]

Log(w, ev) == [w EXCEPT !.trace = Append(@, ev)]

----------------------------------------------------------------------------
(* The bar store as the reader sees it *)

\* BcolzExchangeBarReader(rootdir=path): IOError when the store has no metadata
CanOpen(w, path) ==
    IF path[1] = "bundle"
    THEN w.store[path[2]].dir /\ w.store[path[2]].meta # <<>>
    ELSE path \in w.staging

OpenReader(w, path) ==
    IF path[1] = "bundle" THEN Reader(path, w.store[path[2]].meta)
    ELSE Reader(path, <<>>)

\* a cache test that takes a cached None for an answer
NegativeCached(w, path) == path \in DOMAIN w.readers

\* path in self._readers and self._readers[path] is not None
ReaderCached(w, path) ==
    path \in DOMAIN w.readers /\ w.readers[path] # NoneReader

get_reader(w, f, path) ==
    LET Opened(r) ==
          [w |-> Log([w EXCEPT !.readers =
                         [p \in DOMAIN w.readers \cup {path} |->
                             IF p = path THEN r ELSE w.readers[p]]],
                     Ev("open", 0, r.kind, path)),
           val |-> r]
    IN IF ReaderCached(w, path)
       THEN [w |-> Log(w, Ev("reader_hit", 0, w.readers[path].kind, path)),
             val |-> w.readers[path]]
       ELSE Opened(IF CanOpen(w, path) THEN OpenReader(w, path) ELSE NoneReader)

\* reader.get_value(sid, dt, 'close') gives a number (not NaN, no exception)
HasValue(w, reader, sid, t) ==
    /\ reader.kind = "Reader"
    /\ reader.meta # <<>>
    /\ reader.meta[1] <= t /\ t <= reader.meta[2]
    /\ w.store[reader.rootdir[2]].dir
    /\ <<sid, t>> \in w.store[reader.rootdir[2]].rows

\* the coverage check: both ends and every period between them have a value
range_in_bundle(w, sid, start_dt, end_dt, reader) ==
    /\ HasValue(w, reader, sid, start_dt)
    /\ HasValue(w, reader, sid, end_dt)
    /\ \A t \in get_calendar_periods_range(start_dt, end_dt, reader.rootdir[2]) :
           HasValue(w, reader, sid, t)

----------------------------------------------------------------------------
(* get_adj_dates *)

RECURSIVE EarliestTrade(_, _, _)
EarliestTrade(assets, i, acc) ==
    IF i > Len(assets) THEN acc
    ELSE LET a == catalog[assets[i]]
         IN EarliestTrade(assets, i + 1,
                IF (acc = None \/ acc > a.start_date)
                      /\ a.start_date >= first_session
                THEN a.start_date ELSE acc)

EndAsset(a, f) == IF f = "minute" THEN a.end_minute ELSE a.end_daily

RECURSIVE LastEntry(_, _, _, _)
LastEntry(assets, f, i, acc) ==
    IF i > Len(assets) THEN acc
    ELSE LET end_asset == EndAsset(catalog[assets[i]], f)
         IN LastEntry(assets, f, i + 1,
                IF end_asset # None /\ (acc = None \/ end_asset > acc)
                THEN end_asset ELSE acc)

get_adj_dates(start, end, assets, f) ==
    LET Adjusted(earliest_trade, last_entry) ==
          LET Checked(s, e) ==
                IF e = None \/ s = None \/ s >= e
                THEN [exc |-> "NoDataAvailableOnExchange", start |-> s, end |-> e]
                ELSE [exc |-> "none", start |-> s, end |-> e]
          IN Checked(IF start = None
                        \/ (earliest_trade # None /\ earliest_trade > start)
                     THEN earliest_trade ELSE start,
                     IF end = None \/ (last_entry # None /\ end > last_entry)
                     THEN last_entry ELSE end)
    IN Adjusted(EarliestTrade(assets, 1, None), LastEntry(assets, f, 1, None))

----------------------------------------------------------------------------
(* prepare_chunks *)

Chunk(sid, ps, pe, label) ==
    [asset |-> sid, period_start |-> ps, period_end |-> pe, period |-> label]

\* a planner that forgets the labels it has seen
AnyLabel(label, chunk_labels) == TRUE

\* label not in chunk_labels
NewLabel(label, chunk_labels) == label \notin chunk_labels

\* the period of dt, clipped to the availability of the trading pair
PeriodOf(a, f, dt, first_trading_dt) ==
    LET raw == IF f = "minute" THEN get_month_start_end(dt)
               ELSE get_year_start_end(dt)
        asset_start == IF f = "minute"
                       THEN get_month_start_end(first_trading_dt)[1]
                       ELSE get_year_start_end(first_trading_dt)[1]
        asset_end == IF f = "minute"
                     THEN get_month_start_end(a.end_minute)[2]
                     ELSE get_year_start_end(a.end_minute)[2]
    IN [skip |-> first_trading_dt > raw[1],
        period_start |-> IF asset_start = raw[1] /\ raw[1] < first_trading_dt
                         THEN first_trading_dt ELSE raw[1],
        period_end |-> IF asset_end = raw[2] /\ raw[2] > a.end_minute
                       THEN a.end_minute ELSE raw[2]]

\* the start of the range probed for existing data
RangeStart(period_start, f) ==
    IF f = "minute" THEN LastMinuteOfDay(period_start) ELSE period_start

\* a planner that probes the period from its first instant
ProbeFromPeriodStart(w, sid, f, period_start, period_end, reader) ==
    range_in_bundle(w, sid, period_start, period_end, reader)

\* has_data for the period: no chunk is created when it holds
PeriodInBundle(w, sid, f, period_start, period_end, reader) ==
    range_in_bundle(w, sid, RangeStart(period_start, f), period_end, reader)

RECURSIVE WalkSessions(_, _, _, _, _, _, _, _, _)
WalkSessions(w, reader, a, f, first_trading_dt, dt, last_dt, chunk_labels, chunks) ==
    IF dt > last_dt THEN chunks
    ELSE LET label == PeriodLabel(dt, f)
             p == PeriodOf(a, f, dt, first_trading_dt)
             next == dt + TicksPerDay
         IN IF ~NewLabel(label, chunk_labels)
            THEN WalkSessions(w, reader, a, f, first_trading_dt, next, last_dt,
                              chunk_labels, chunks)
            ELSE IF p.skip
            THEN WalkSessions(w, reader, a, f, first_trading_dt, next, last_dt,
                              chunk_labels \cup {label}, chunks)
            ELSE IF PeriodInBundle(w, a.sid, f, p.period_start, p.period_end, reader)
            THEN WalkSessions(w, reader, a, f, first_trading_dt, next, last_dt,
                              chunk_labels \cup {label}, chunks)
            ELSE WalkSessions(w, reader, a, f, first_trading_dt, next, last_dt,
                              chunk_labels \cup {label},
                              Append(chunks, Chunk(a.sid, p.period_start,
                                                   p.period_end, label)))

SetMin(S) == CHOOSE x \in S : \A y \in S : x <= y
SetMax(S) == CHOOSE x \in S : \A y \in S : x >= y

RECURSIVE PlanAssets(_, _, _, _, _, _, _, _)
PlanAssets(w, reader, assets, f, start_dt, end_dt, i, chunks) ==
    LET a == catalog[assets[i]]
        first_trading_dt == IF a.start_date > first_session
                            THEN a.start_date ELSE first_session
        Walk(adj, sessions) ==
          IF adj.exc # "none"
          THEN PlanAssets(w, reader, assets, f, start_dt, end_dt, i + 1, chunks)
          ELSE IF sessions = {}
          THEN [exc |-> "IndexError", chunks |-> chunks]
          ELSE PlanAssets(w, reader, assets, f, start_dt, end_dt, i + 1,
                   WalkSessions(w, reader, a, f, first_trading_dt,
                                SetMin(sessions), SetMax(sessions), {}, chunks))
        Adjusted(adj) == Walk(adj, sessions_in_range(adj.start, adj.end))
    IN IF i > Len(assets) THEN [exc |-> "none", chunks |-> chunks]
       ELSE Adjusted(get_adj_dates(start_dt, end_dt, <<assets[i]>>, f))

\* list.sort(key=period_end): stable, ascending
RECURSIVE InsertChunk(_, _)
InsertChunk(sorted, c) ==
    IF sorted = <<>> THEN <<c>>
    ELSE IF sorted[Len(sorted)].period_end <= c.period_end
    THEN Append(sorted, c)
    ELSE Append(InsertChunk(SubSeq(sorted, 1, Len(sorted) - 1), c),
                sorted[Len(sorted)])

RECURSIVE SortChunks(_, _, _)
SortChunks(chunks, i, sorted) ==
    IF i > Len(chunks) THEN sorted
    ELSE SortChunks(chunks, i + 1, InsertChunk(sorted, chunks[i]))

prepare_chunks(w, assets, f, start_dt, end_dt) ==
    LET Read(r) ==
          LET Sorted(plan) ==
                [w |-> r.w, exc |-> plan.exc, reader |-> r.val,
                 chunks |-> IF plan.exc = "none"
                            THEN SortChunks(plan.chunks, 1, <<>>) ELSE <<>>]
          IN Sorted(PlanAssets(r.w, r.val, assets, f, start_dt, end_dt, 1, <<>>))
    IN Read(get_reader(w, f, BundlePath(f)))

----------------------------------------------------------------------------
(* get_writer and the writer *)

HasContent(st) == st.dir /\ (st.meta # <<>> \/ st.rows # {} \/ st.nans # {})

\* the writer is opened: BcolzExchangeBarWriter(rootdir, start_session,
\* end_session, write_metadata), which persists the metadata when told to;
\* req is the start_dt, end_dt that get_writer was given
OpenWriter(w, path, req, start_session, end_session, write_metadata) ==
    LET f == path[2]
        wr == Writer(w.wid, path, start_session, end_session)
        st == [w.store[f] EXCEPT
                  !.dir = TRUE,
                  !.meta = IF write_metadata
                           THEN <<start_session, end_session>> ELSE @]
        w1 == [w EXCEPT !.store[f] = st,
                        !.wid = @ + 1,
                        !.writers = [p \in DOMAIN w.writers \cup {path} |->
                                        IF p = path THEN wr ELSE w.writers[p]]]
    IN [w |-> Log(w1, Ev("get_writer", wr.id,
                         IF write_metadata THEN "opened_meta" ELSE "opened",
                         [path |-> path, req |-> req,
                          before |-> w.store[f].meta,
                          range |-> <<start_session, end_session>>,
                          after |-> st.meta])),
        exc |-> "none", val |-> wr]

\* a cache hit that also wants the folder of the bundle to be there
CachedWhileStored(w, path) == path \in DOMAIN w.writers /\ w.store[path[2]].dir

\* path in self._writers
WriterCached(w, path) == path \in DOMAIN w.writers

\* a writer opened with the range it was asked for
RequestedRange(meta, start_dt, end_dt) == <<start_dt, end_dt>>

\* start_session, end_session of a writer on a bundle that has metadata
UnionRange(meta, start_dt, end_dt) ==
    <<IF start_dt < meta[1] THEN start_dt ELSE meta[1],
      IF end_dt > meta[2] THEN end_dt ELSE meta[2]>>

get_writer(w, start_dt, end_dt, f) ==
    LET path == BundlePath(f)
        st == w.store[f]
        Extended(rng) ==
          OpenWriter(w, path, <<start_dt, end_dt>>, rng[1], rng[2],
                     start_dt < st.meta[1] \/ end_dt > st.meta[2])
    IN IF WriterCached(w, path)
       THEN [w |-> Log(w, Ev("get_writer", w.writers[path].id, "cached", path)),
             exc |-> "none", val |-> w.writers[path]]
       ELSE IF HasContent(st)
       THEN IF st.meta = <<>>
            THEN [w |-> Log(w, Ev("get_writer", 0, "no_metadata", path)),
                  exc |-> "MetadataReadError", val |-> NoneReader]
            ELSE Extended(UnionRange(st.meta, start_dt, end_dt))
       ELSE OpenWriter(w, path, <<start_dt, end_dt>>, start_dt, end_dt, TRUE)

NoData == [sid |-> 0, rows |-> {}, nans |-> {}]

\* writer.write(data): inject is the outcome the disk forces ("ok": none).
\* A row outside the writer's sessions cannot be written; a row that is
\* already in the store is overlapping data; nothing is written on failure.
WriterWrite(w, writer, data, inject) ==
    LET f == writer.rootdir[2]
        st == w.store[f]
        all == data.rows \cup data.nans
        out == IF inject = "fail" THEN "error"
               ELSE IF \E t \in all : t < writer.start_session
                                        \/ t > writer.end_session
               THEN "error"
               ELSE IF \E t \in all : <<data.sid, t>> \in st.rows \cup st.nans
               THEN "overlap"
               ELSE "ok"
        w1 == IF out = "ok" /\ all # {}
              THEN [w EXCEPT !.store[f] =
                      [st EXCEPT !.dir = TRUE,
                                 !.rows = @ \cup {<<data.sid, t>> : t \in data.rows},
                                 !.nans = @ \cup {<<data.sid, t>> : t \in data.nans}]]
              ELSE w
    IN [w |-> Log(w1, Ev("write", writer.id, out, writer.rootdir)), out |-> out]

\* a _write without the except clause for overlapping data
RetryAnyFailure(out) == IF out = "ok" THEN "done" ELSE "retry"

\* what the except clauses of the first write do with its outcome
FirstWriteHandling(out) ==
    IF out = "ok" THEN "done"
    ELSE IF out = "overlap" THEN "swallow"
    ELSE "retry"

\* the retried write is outside any try block
RetryOutcome(out) ==
    IF out = "ok" THEN "none"
    ELSE IF out = "overlap" THEN "BcolzMinuteOverlappingData"
    ELSE "WriteError"

_write(w, data, writer, f, inject1, inject2) ==
    LET Second(r2) == [w |-> r2.w, exc |-> RetryOutcome(r2.out)]
        Reacquired(g) ==
          IF g.exc # "none" THEN [w |-> g.w, exc |-> g.exc]
          ELSE Second(WriterWrite(g.w, g.val, data, inject2))
        Handled(r1, h) ==
          IF h = "done" THEN [w |-> r1.w, exc |-> "none"]
          ELSE IF h = "swallow"
          THEN [w |-> Log(r1.w, Ev("swallow", writer.id, r1.out, writer.rootdir)),
                exc |-> "none"]
          ELSE IF writer.rootdir \notin DOMAIN r1.w.writers
          THEN [w |-> r1.w, exc |-> "KeyError"]
          ELSE Reacquired(
                 get_writer(Log([r1.w EXCEPT !.writers =
                                    [p \in DOMAIN r1.w.writers \ {writer.rootdir} |->
                                        r1.w.writers[p]]],
                                Ev("evict", writer.id, "writer", writer.rootdir)),
                            writer.start_session, writer.end_session, f))
        First(r1) == Handled(r1, FirstWriteHandling(r1.out))
    IN First(WriterWrite(w, writer, data, inject1))

----------------------------------------------------------------------------
(* ingest_ctable *)

\* the rows of the dense table in time order
RECURSIVE SortedSeq(_)
SortedSeq(S) ==
    IF S = {} THEN <<>>
    ELSE LET m == SetMin(S) IN <<m>> \o SortedSeq(S \ {m})

\* the loop over nan_rows that compresses the gaps into first, last pairs
RECURSIVE GapLoop(_, _, _, _, _)
GapLoop(nan_rows, f, i, previous_date, dates) ==
    IF i > Len(nan_rows) THEN dates
    ELSE LET row_date == nan_rows[i]
         IN IF previous_date = None
            THEN GapLoop(nan_rows, f, i + 1, row_date, Append(dates, row_date))
            ELSE IF row_date > previous_date + get_delta(1, f)
            THEN GapLoop(nan_rows, f, i + 1, row_date,
                         Append(Append(dates, previous_date), row_date))
            ELSE GapLoop(nan_rows, f, i + 1, row_date, dates)

\* a gap loop that does not close the last gap
GapDatesUnclosed(nan_rows, f) == GapLoop(nan_rows, f, 1, None, <<>>)

GapDates(nan_rows, f) ==
    Append(GapLoop(nan_rows, f, 1, None, <<>>), nan_rows[Len(nan_rows)])

\* gap handling without the branch that raises
NeverRaise(empty_rows_behavior) ==
    IF empty_rows_behavior = "warn" THEN "keep" ELSE "drop"

\* what is done with the rows that have an empty value: "drop" (dropna),
\* "keep" (nothing), "raise" (EmptyValuesInBundleError)
EmptyRowsAction(empty_rows_behavior) ==
    IF empty_rows_behavior = "warn" THEN "keep"
    ELSE IF empty_rows_behavior = "raise" THEN "raise"
    ELSE "drop"

\* the periods of the chunk the exchange has no values for
MissingPeriods(periods, miss) ==
    {t \in periods : Cardinality({u \in periods : u <= t}) \in miss}

\* a load failure that leaves ingest_ctable as an exception
SkipRaises == "LoadError"

\* the exception that leaves ingest_ctable when load_raw_arrays fails: the
\* except clause logs the failure and the path is returned
SkipOutcome == "none"

\* an rmtree in a finally clause
RemovesAlways(exc, cleanup) == cleanup

\* shutil.rmtree(path) is reached: _write has returned and cleanup is set
Removes(exc, cleanup) == exc = "none" /\ cleanup

ingest_ctable(w, a, f, period, start_dt, end_dt, writer, empty_rows_behavior, cleanup, env) ==
    LET path == get_bcolz_chunk(a.sid, f, period)
        Return(w1) ==
          [w |-> Log(w1, Ev("return", a.sid, "ingest_ctable", path)),
           exc |-> "none", val |-> path]
        Cleaned(wr) ==
          IF Removes(wr.exc, cleanup)
          THEN Log([wr.w EXCEPT !.staging = @ \ {path}],
                   Ev("rmtree", a.sid, "", path))
          ELSE wr.w
        Written(wr) ==
          IF wr.exc # "none"
          THEN [w |-> Cleaned(wr), exc |-> wr.exc, val |-> path]
          ELSE Return(Cleaned(wr))
        Merge(w0, periods, nan_rows, check) ==
          LET act == IF check THEN EmptyRowsAction(empty_rows_behavior)
                     ELSE "keep"
              w1 == IF check /\ empty_rows_behavior \in {"warn", "raise"}
                    THEN Log(w0, Ev("gaps", a.sid, empty_rows_behavior,
                                    GapDates(SortedSeq(nan_rows), f)))
                    ELSE w0
              rows == periods \ nan_rows
              nans == IF act = "drop" THEN {} ELSE nan_rows
              data == IF rows \cup nans = {} THEN NoData
                      ELSE [sid |-> a.sid, rows |-> rows, nans |-> nans]
          IN IF act = "raise"
             THEN [w |-> w1, exc |-> "EmptyValuesInBundleError", val |-> path]
             ELSE Written(_write(Log(w1, Ev("data", a.sid, empty_rows_behavior,
                                            [rows |-> data.rows,
                                             nans |-> data.nans])),
                                 data, writer, f, env.w1, env.w2))
        Loaded(w0, periods, nan_rows) ==
          Merge(w0, periods, nan_rows,
                empty_rows_behavior # "ignore" /\ nan_rows # {})
        Skipped(w1) ==
          IF SkipOutcome = "none" THEN Return(w1)
          ELSE [w |-> w1, exc |-> SkipOutcome, val |-> path]
        Opened(r) ==
          IF r.val = NoneReader
          THEN [w |-> r.w, exc |-> "TempBundleNotFoundError", val |-> path]
          ELSE IF env.load = "fail" \/ path \notin r.w.staging
          THEN Skipped(Log(r.w, Ev("skip", a.sid, "load_failed", path)))
          ELSE Loaded(r.w, get_calendar_periods_range(start_dt, end_dt, f),
                      MissingPeriods(
                          get_calendar_periods_range(start_dt, end_dt, f),
                          env.miss))
    IN Opened(get_reader(
                Log(IF env.fetch
                    THEN [w EXCEPT !.staging = @ \cup {path}, !.aux.temp = TRUE]
                    ELSE w,
                    Ev("ingest_ctable", a.sid, empty_rows_behavior, path)),
                f, path))

\* a chunk merged by a caller of the bundle: the writer comes from get_writer
merge_chunk(w, a, f, start_dt, end_dt, empty_rows_behavior, cleanup, env) ==
    LET Acquired(g) ==
          IF g.exc # "none" THEN [w |-> g.w, exc |-> g.exc, val |-> <<>>]
          ELSE ingest_ctable(g.w, a, f, PeriodLabel(start_dt, f), start_dt,
                             end_dt, g.val, empty_rows_behavior, cleanup, env)
    IN Acquired(get_writer(w, start_dt, end_dt, f))

----------------------------------------------------------------------------
(* ingest_assets *)

\* what the exchange and the disk do to one chunk of a call
Benign(miss) == [fetch |-> TRUE, load |-> "ok", miss |-> miss,
                 w1 |-> "ok", w2 |-> "ok"]

EnvFor(env, k) ==
    IF k = env.bad
    THEN [fetch |-> env.fetch, load |-> env.load, miss |-> env.miss,
          w1 |-> env.w1, w2 |-> env.w2]
    ELSE Benign(env.miss)

\* the boundaries are widened to those of the chunks
RECURSIVE ExpandRange(_, _, _, _)
ExpandRange(chunks, i, start_dt, end_dt) ==
    IF i > Len(chunks) THEN <<start_dt, end_dt>>
    ELSE ExpandRange(chunks, i + 1,
             IF chunks[i].period_start < start_dt
             THEN chunks[i].period_start ELSE start_dt,
             IF chunks[i].period_end > end_dt
             THEN chunks[i].period_end ELSE end_dt)

\* a loop that takes the writer of the store from the cache for each chunk
CacheWriter(w, writer) ==
    IF writer.rootdir \in DOMAIN w.writers THEN w.writers[writer.rootdir]
    ELSE writer

\* writer=writer: the loop hands the handle it acquired to every chunk
LoopWriter(w, writer) == writer

RECURSIVE DriveChunks(_, _, _, _, _, _)
DriveChunks(w, chunks, k, f, writer, env) ==
    LET Merged(r) ==
          IF r.exc # "none" THEN [w |-> r.w, exc |-> r.exc]
          ELSE DriveChunks(r.w, chunks, k + 1, f, writer, env)
    IN IF k > Len(chunks) THEN [w |-> w, exc |-> "none"]
       ELSE Merged(ingest_ctable(w, catalog[chunks[k].asset], f,
                                 chunks[k].period, chunks[k].period_start,
                                 chunks[k].period_end, LoopWriter(w, writer),
                                 "strip", TRUE, EnvFor(env, k)))

ingest_assets(w, assets, start_dt, end_dt, f, env) ==
    LET Planned(pc) ==
          LET Done(d) == [w |-> d.w, exc |-> d.exc, chunks |-> pc.chunks]
              Acquired(g) ==
                IF g.exc # "none"
                THEN [w |-> g.w, exc |-> g.exc, chunks |-> pc.chunks]
                ELSE Done(DriveChunks(g.w, pc.chunks, 1, f, g.val, env))
              Expanded(rng) == Acquired(get_writer(pc.w, rng[1], rng[2], f))
          IN IF pc.exc # "none"
             THEN [w |-> pc.w, exc |-> pc.exc, chunks |-> <<>>]
             ELSE Expanded(ExpandRange(pc.chunks, 1, start_dt, end_dt))
    IN Planned(prepare_chunks(Log(w, Ev("ingest_assets", 0, f,
                                        <<start_dt, end_dt>>)),
                              assets, f, start_dt, end_dt))

\* data_frequency.split(',')
Split(data_frequency) ==
    IF data_frequency = "daily,minute" THEN <<"daily", "minute">>
    ELSE <<data_frequency>>

RECURSIVE IngestFrequencies(_, _, _, _, _, _, _)
IngestFrequencies(w, assets, start_dt, end_dt, frequencies, k, env) ==
    LET Ingested(r) ==
          IF r.exc # "none" THEN [w |-> r.w, exc |-> r.exc]
          ELSE IngestFrequencies(r.w, assets, start_dt, end_dt, frequencies,
                                 k + 1, env)
    IN IF k > Len(frequencies) THEN [w |-> w, exc |-> "none"]
       ELSE Ingested(ingest_assets(w, assets, start_dt, end_dt,
                                   frequencies[k], env))

\* an ingest that hands its start, end to ingest_assets as they are
IngestUnscoped(w, data_frequency, assets, start, end, env) ==
    IngestFrequencies(Log(w, Ev("ingest", 0, data_frequency, <<start, end>>)),
                      assets, start, end, Split(data_frequency), 1, env)

\* assets is what get_assets(include_symbols, exclude_symbols) returns
ingest(w, data_frequency, assets, start, end, env) ==
    LET Scoped(w0, adj) ==
          IF adj.exc # "none" THEN [w |-> w0, exc |-> adj.exc]
          ELSE IngestFrequencies(w0, assets, adj.start, adj.end,
                                 Split(data_frequency), 1, env)
    IN Scoped(Log(w, Ev("ingest", 0, data_frequency, <<start, end>>)),
              get_adj_dates(start, end, assets, data_frequency))

----------------------------------------------------------------------------
(* The history reads *)

\* every asset has the whole adjusted range in the bundle
RECURSIVE AllInBundle(_, _, _, _, _, _)
AllInBundle(w, assets, i, start_dt, end_dt, reader) ==
    IF i > Len(assets) THEN TRUE
    ELSE /\ range_in_bundle(w, assets[i], start_dt, end_dt, reader)
         /\ AllInBundle(w, assets, i + 1, start_dt, end_dt, reader)

\* a coverage check that also wants the period before the window
WindowMissingBefore(w, assets, start_dt, end_dt, reader) ==
    ~AllInBundle(w, assets, 1, start_dt - 1, end_dt, reader)

\* the loop over the assets that looks for one whose range is not in the bundle
WindowMissing(w, assets, start_dt, end_dt, reader) ==
    ~AllInBundle(w, assets, 1, start_dt, end_dt, reader)

Series(assets, f, start_dt, end_dt) ==
    [assets |-> assets,
     index |-> get_calendar_periods_range(start_dt, end_dt, f)]

NoSeries == [assets |-> <<>>, index |-> {}]

HistoryRet(w, reset_reader, exc, val) ==
    [w |-> Log(w, Ev("history_ret", IF reset_reader THEN 1 ELSE 0, exc, val)),
     exc |-> exc, val |-> val]

get_history_window_series(w, assets, end_dt, bar_count, f, reset_reader) ==
    LET path == BundlePath(f)
        Checked(adj, r) ==
          IF r.val = NoneReader
          THEN HistoryRet(r.w, reset_reader, "PricingDataNotLoadedError",
                          NoSeries)
          ELSE IF WindowMissing(r.w, assets, adj.start, adj.end, r.val)
          THEN HistoryRet(r.w, reset_reader, "PricingDataNotLoadedError",
                          NoSeries)
          ELSE HistoryRet(r.w, reset_reader, "none",
                          Series(assets, f, adj.start, adj.end))
        Read(adj, r1) ==
          IF ~reset_reader THEN Checked(adj, r1)
          ELSE IF r1.val = NoneReader
          THEN HistoryRet(r1.w, reset_reader, "AttributeError", NoSeries)
          ELSE Checked(adj,
                 get_reader(Log([r1.w EXCEPT !.readers =
                                    [p \in DOMAIN r1.w.readers \ {path} |->
                                        r1.w.readers[p]]],
                                Ev("evict", 0, "reader", path)),
                            f, path))
        Adjusted(w0, adj) ==
          IF adj.exc # "none"
          THEN HistoryRet(w0, reset_reader, adj.exc, NoSeries)
          ELSE Read(adj, get_reader(w0, f, path))
    IN Adjusted(Log(w, Ev("history", IF reset_reader THEN 1 ELSE 0, f,
                          <<end_dt, bar_count>>)),
                get_adj_dates(get_start_dt(end_dt, bar_count, f), end_dt,
                              assets, f))

\* the exception of the first read that the except clause catches
Caught(exc) == exc = "PricingDataNotLoadedError"

\* a retry that reads through the cached reader
RetryCached == FALSE

\* reset_reader of the retried read
RetryReset == TRUE

get_history_window_series_and_load(w, assets, end_dt, bar_count, f, env) ==
    LET Retried(h2) == [w |-> h2.w, exc |-> h2.exc, val |-> h2.val]
        Ingested(ia) ==
          IF ia.exc # "none" THEN [w |-> ia.w, exc |-> ia.exc, val |-> NoSeries]
          ELSE Retried(get_history_window_series(ia.w, assets, end_dt,
                                                 bar_count, f, RetryReset))
        Tried(h1) ==
          IF h1.exc = "none" THEN [w |-> h1.w, exc |-> "none", val |-> h1.val]
          ELSE IF ~Caught(h1.exc)
          THEN [w |-> h1.w, exc |-> h1.exc, val |-> NoSeries]
          ELSE Ingested(ingest_assets(h1.w, assets,
                                      get_start_dt(end_dt, bar_count, f),
                                      end_dt, f, env))
    IN Tried(get_history_window_series(w, assets, end_dt, bar_count, f, FALSE))

----------------------------------------------------------------------------
(* clean *)

EmptyStore == [dir |-> FALSE, meta |-> <<>>, rows |-> {}, nans |-> {}]

\* a clean that removes the bundles of both frequencies whatever it is given
BothFrequencies(data_frequency) == {"daily", "minute"}

\* ['daily', 'minute'] if data_frequency is None else [data_frequency]
CleanFrequencies(data_frequency) ==
    IF data_frequency = "None" THEN {"daily", "minute"} ELSE {data_frequency}

\* data_frequency is a frequency or "None"; symbols.json and temp_bundles
\* are removed whatever the frequency
clean(w, data_frequency) ==
    [w EXCEPT !.aux = [symbols |-> FALSE, temp |-> FALSE],
              !.staging = {},
              !.store = [f \in Freqs |->
                            IF f \in CleanFrequencies(data_frequency)
                            THEN EmptyStore ELSE w.store[f]]]

----------------------------------------------------------------------------
(* The calls and their inputs *)

AssetLists == {<<1>>, <<2>>, <<1, 2>>}

\* start_dt, end_dt of an ingestion: sessions
IngestRanges == {<<Midnight(0), Midnight(NumDays - 1)>>,
                 <<Midnight(1), Midnight(MonthDays)>>,
                 <<Midnight(NumDays - 1), Midnight(NumDays - 1)>>}

\* start, end of ingest: not given, or the last session alone
IngestScopes == {<<None, None>>,
                 <<Midnight(NumDays - 1), Midnight(NumDays - 1)>>}

\* data_frequency of ingest
FrequencyLists == {"minute", "daily,minute"}

\* end_dt of a history read
ArgEnds == {Midnight(1) + 1, Midnight(NumDays - 1)}

BarCounts == {1, MonthDays * TicksPerDay}

\* the periods of each chunk of a call that come without values
MissChoices == {{}, {1}}

Fault(bad, fetch, load, w1, w2) ==
    [bad |-> bad, fetch |-> fetch, load |-> load, w1 |-> w1, w2 |-> w2]

NoFault == Fault(0, TRUE, "ok", "ok", "ok")

\* what goes wrong with one chunk of a call: its load fails, the first write
\* fails, both writes fail
Faults == {NoFault,
           Fault(1, TRUE, "fail", "ok", "ok"),
           Fault(1, TRUE, "ok", "fail", "ok"),
           Fault(1, TRUE, "ok", "fail", "fail"),
           Fault(2, TRUE, "ok", "fail", "ok")}

EnvOf(ft, miss) ==
    [bad |-> ft.bad, fetch |-> ft.fetch, load |-> ft.load, miss |-> miss,
     w1 |-> ft.w1, w2 |-> ft.w2]

Envs == {EnvOf(ft, {}) : ft \in Faults}
        \cup {EnvOf(NoFault, m) : m \in MissChoices}

\* the backfill of a history read
LoadEnvs == {EnvOf(NoFault, m) : m \in MissChoices}
            \cup {EnvOf(Fault(1, TRUE, "fail", "ok", "ok"), {})}

Call(op, assets, f, a, b) ==
    [op |-> op, assets |-> assets, f |-> f, a |-> a, b |-> b]

\* the record of a call: its arguments, what the exchange and the disk did
\* during it, its outcome
Rec(call, env, r, covered, chunks, val) ==
    [call |-> call, env |-> env, exc |-> r.exc, chunks |-> chunks,
     covered |-> covered, val |-> val]

NoCall == Rec(Call("none", <<>>, "", 0, 0), EnvOf(NoFault, {}),
              [exc |-> "none"], FALSE, <<>>, NoSeries)

\* the window of a history read is in the bundle for every asset, as the
\* reader the read works with sees it: the cached reader, or a new one
\* when the read resets the reader
WindowCovered(w, assets, end_dt, bar_count, f, reset_reader) ==
    LET path == BundlePath(f)
        Covered(adj, r) ==
          /\ adj.exc = "none"
          /\ AllInBundle(r.w, assets, 1, adj.start, adj.end, r.val)
    IN Covered(get_adj_dates(get_start_dt(end_dt, bar_count, f), end_dt,
                             assets, f),
               get_reader(IF reset_reader
                          THEN [w EXCEPT !.readers =
                                   [p \in DOMAIN w.readers \ {path} |->
                                       w.readers[p]]]
                          ELSE w,
                          f, path))

Commit(w, rec) ==
    /\ store' = w.store
    /\ staging' = w.staging
    /\ aux' = w.aux
    /\ readers' = w.readers
    /\ writers' = w.writers
    /\ wid' = w.wid
    /\ trace' = w.trace
    /\ prev' = IF rec.call.op = "ingest_assets" /\ last.call.op = "ingest_assets"
               THEN last ELSE NoCall
    /\ last' = rec
    /\ UNCHANGED catalog

IngestAssets ==
    /\ nops < MaxOps
    /\ nops' = nops + 1
    /\ UNCHANGED ncleans
    /\ \E assets \in AssetLists, f \in Freqs, rng \in IngestRanges, env \in Envs :
        \E r \in {ingest_assets(World, assets, rng[1], rng[2], f, env)} :
           Commit(r.w, Rec(Call("ingest_assets", assets, f, rng[1], rng[2]),
                           env, r, FALSE, r.chunks, NoSeries))

Ingest ==
    /\ nops < MaxOps
    /\ nops' = nops + 1
    /\ UNCHANGED ncleans
    /\ \E assets \in AssetLists, data_frequency \in FrequencyLists,
          rng \in IngestScopes, env \in LoadEnvs :
        \E r \in {ingest(World, data_frequency, assets, rng[1], rng[2], env)} :
           Commit(r.w, Rec(Call("ingest", assets, data_frequency, rng[1], rng[2]),
                           env, r, FALSE, <<>>, NoSeries))

HistoryWindow ==
    /\ nops < MaxOps
    /\ nops' = nops + 1
    /\ UNCHANGED ncleans
    /\ \E assets \in AssetLists, f \in Freqs, end_dt \in ArgEnds,
          bar_count \in BarCounts, reset_reader \in BOOLEAN :
        \E r \in {get_history_window_series(World, assets, end_dt, bar_count, f,
                                              reset_reader)} :
           Commit(r.w, Rec(Call("history", assets, f, end_dt, bar_count),
                           EnvOf(NoFault, {}), r,
                           WindowCovered(World, assets, end_dt, bar_count, f,
                                         reset_reader),
                           <<>>, r.val))

HistoryWindowAndLoad ==
    /\ nops < MaxOps
    /\ nops' = nops + 1
    /\ UNCHANGED ncleans
    /\ \E assets \in AssetLists, f \in Freqs, end_dt \in ArgEnds,
          bar_count \in BarCounts, env \in LoadEnvs :
        \E r \in {get_history_window_series_and_load(World, assets, end_dt,
                                                       bar_count, f, env)} :
           Commit(r.w, Rec(Call("history_and_load", assets, f, end_dt, bar_count),
                           env, r,
                           WindowCovered(World, assets, end_dt, bar_count, f,
                                         FALSE),
                           <<>>, r.val))

PrepareChunks ==
    /\ nops < MaxOps
    /\ nops' = nops + 1
    /\ UNCHANGED ncleans
    /\ \E assets \in AssetLists, f \in Freqs, rng \in IngestRanges :
        \E r \in {prepare_chunks(World, assets, f, rng[1], rng[2])} :
           Commit(r.w, Rec(Call("prepare_chunks", assets, f, rng[1], rng[2]),
                           EnvOf(NoFault, {}), r, FALSE, r.chunks, NoSeries))

\* the range of a chunk merged on its own: two months, or the calendar
MergeRange(f) ==
    IF f = "minute"
    THEN <<first_session, get_month_start_end(Midnight(MonthDays))[2]>>
    ELSE <<first_session, Midnight(NumDays - 1)>>

Policies == {"ignore", "strip", "warn", "raise"}

\* the periods of the merged chunk that come without values
MergeMiss == (SUBSET (1 .. MaxGapIdx)) \cup {{1, 2, 3, 7}}

MergeEnvs == {EnvOf(NoFault, m) : m \in MergeMiss}
             \cup {EnvOf(ft, {}) : ft \in {Fault(1, FALSE, "ok", "ok", "ok"),
                                           Fault(1, TRUE, "fail", "ok", "ok"),
                                           Fault(1, TRUE, "ok", "fail", "ok"),
                                           Fault(1, TRUE, "ok", "fail", "fail")}}

MergeChunk ==
    /\ nops < MaxOps
    /\ nops' = nops + 1
    /\ UNCHANGED ncleans
    /\ \E sid \in Sids, f \in Freqs, empty_rows_behavior \in Policies,
          cleanup \in BOOLEAN, env \in MergeEnvs :
        \E r \in {merge_chunk(World, catalog[sid], f, MergeRange(f)[1],
                               MergeRange(f)[2], empty_rows_behavior, cleanup,
                               EnvFor(env, 1))} :
           Commit(r.w, Rec(Call("ingest_ctable", <<sid>>, f, MergeRange(f)[1],
                                MergeRange(f)[2]),
                           env, r, FALSE, <<>>,
                           [policy |-> empty_rows_behavior, cleanup |-> cleanup,
                            path |-> r.val]))

\* clean is called between two other calls
Clean ==
    /\ 0 < nops /\ nops < MaxOps
    /\ ncleans < MaxCleans
    /\ ncleans' = ncleans + 1
    /\ UNCHANGED nops
    /\ \E data_frequency \in Freqs \cup {"None"} :
        \E w \in {clean(World, data_frequency)} :
           Commit(w, Rec(Call("clean", <<>>, data_frequency, 0, 0),
                         EnvOf(NoFault, {}), [exc |-> "none"], FALSE, <<>>,
                         NoSeries))

----------------------------------------------------------------------------
(* The initial state: a new ExchangeBundle, its caches empty, on an exchange
   folder that an earlier process has either left without bundles or has
   ingested the first period of asset 2 into.  Asset 1 is listed on the
   second day of the calendar, asset 2 before the calendar starts. *)

Asset(sid, start_date, end_minute, end_daily) ==
    [sid |-> sid, start_date |-> start_date, end_minute |-> end_minute,
     end_daily |-> end_daily]

Catalog ==
    [sid \in Sids |->
        IF sid = 1
        THEN Asset(1, Midnight(1), LastTick - TicksPerDay, Midnight(NumDays - 1))
        ELSE Asset(2, 0 - TicksPerDay, LastTick, Midnight(NumDays - 1))]

NoStore == [f \in Freqs |-> EmptyStore]

\* the folder after ingest_assets([asset 2], day 0, day 1) at both
\* frequencies: the first month and the first year of asset 2
MergedPeriod(sid, f, period) ==
    [dir |-> TRUE, meta |-> period,
     rows |-> {<<sid, t>> : t \in get_calendar_periods_range(period[1], period[2], f)},
     nans |-> {}]

EarlierIngest ==
    [f \in Freqs |->
        IF f = "minute" THEN MergedPeriod(2, f, get_month_start_end(first_session))
        ELSE MergedPeriod(2, f, get_year_start_end(first_session))]

Init ==
    /\ catalog = Catalog
    /\ store \in {NoStore, EarlierIngest}
    /\ staging = {}
    /\ aux = [symbols |-> TRUE, temp |-> store # NoStore]
    /\ readers = <<>>
    /\ writers = <<>>
    /\ wid = 1
    /\ trace = <<>>
    /\ last = NoCall
    /\ prev = NoCall
    /\ nops = 0
    /\ ncleans = 0

Next ==
    \/ IngestAssets
    \/ Ingest
    \/ HistoryWindow
    \/ HistoryWindowAndLoad
    \/ PrepareChunks
    \/ Clean

Spec == Init /\ [][Next]_vars

\* the chunk merges of a caller that drives ingest_ctable itself
NextMerge == MergeChunk

SpecMerge == Init /\ [][NextMerge]_vars

----------------------------------------------------------------------------
(* What a call did, read from its trace *)

EvIdx(e) == {i \in DOMAIN trace : trace[i].e = e}
Count(e) == Cardinality(EvIdx(e))

\* the exchange has every value and the disk does what it is asked
FaultFree(env) == env = EnvOf(NoFault, {})

\* the chunk merge an event of the trace belongs to
ChunkOf(i) == Cardinality({j \in 1 .. i : trace[j].e = "ingest_ctable"})

WritesOfChunk(k) == {j \in EvIdx("write") : ChunkOf(j) = k}
EvictsOfChunk(k) ==
    {j \in EvIdx("evict") : trace[j].out = "writer" /\ ChunkOf(j) = k}

\* the first writer.write of a chunk merge
FirstWrite(i) == i \in EvIdx("write") /\ \A j \in WritesOfChunk(ChunkOf(i)) : i <= j

\* the window of the last history read, adjusted to the assets
LastWindow ==
    get_adj_dates(get_start_dt(last.call.a, last.call.b, last.call.f),
                  last.call.a, last.call.assets, last.call.f)

----------------------------------------------------------------------------
(* C1, as claimed: when ingest_assets is run twice in a row with the same
   assets, frequency and [start, end], both runs completing on an exchange
   and a disk that inject no fault, the second run plans no chunk, attempts
   no write and persists no metadata. *)
C1_SecondRunPlansNothing ==
    (/\ last.call.op = "ingest_assets"
     /\ prev.call = last.call
     /\ prev.exc = "none" /\ last.exc = "none"
     /\ FaultFree(prev.env) /\ FaultFree(last.env))
    => /\ last.chunks = <<>>
       /\ Count("write") = 0
       /\ \A i \in EvIdx("get_writer") : trace[i].out # "opened_meta"

(* C2, as claimed: a history read with backfill whose window is on the
   exchange and in the calendar but not in the bundle, on an exchange and a
   disk that inject no fault, runs ingest_assets exactly once, over
   [end_dt - bar_count * delta, end_dt], and then returns the series. *)
C2_BackfillThenSeries ==
    (/\ last.call.op = "history_and_load"
     /\ FaultFree(last.env)
     /\ LastWindow.exc = "none"
     /\ LastWindow.start >= first_session
     /\ ~last.covered)
    => /\ Count("ingest_assets") = 1
       /\ \A i \in EvIdx("ingest_assets") :
             trace[i].p = <<get_start_dt(last.call.a, last.call.b, last.call.f),
                            last.call.a>>
       /\ last.exc = "none"
       /\ last.val = Series(last.call.assets, last.call.f,
                            LastWindow.start, LastWindow.end)

(* C3: one history read with backfill runs ingest_assets at most once and
   the plain history read at most twice, the second time with the reader
   reset; the outcome of the second read is the outcome of the call, and
   nothing is ingested or read after it. *)
C3_BoundedSelfHealing ==
    last.call.op = "history_and_load"
    => /\ Count("ingest_assets") <= 1
       /\ Count("history") <= 2
       /\ \A i \in EvIdx("history") :
             (trace[i].id = 1) <=> (\E j \in EvIdx("history") : j < i)
       /\ \A i \in EvIdx("history_ret") :
             trace[i].id = 1 => /\ i = Len(trace)
                                /\ last.exc = trace[i].out

C3_Witness ==
    /\ last.call.op = "history_and_load"
    /\ Count("history") = 2
    /\ Count("ingest_assets") = 1
    /\ last.exc = "PricingDataNotLoadedError"

(* C4: a history read, with or without backfill, whose window is in the
   bundle for every asset (as the reader it reads with sees the bundle)
   returns the series and enters neither ingest_assets nor ingest_ctable,
   acquires no writer and writes nothing. *)
C4_CoveredReadIngestsNothing ==
    (last.call.op \in {"history", "history_and_load"} /\ last.covered)
    => /\ last.exc = "none"
       /\ last.val = Series(last.call.assets, last.call.f,
                            LastWindow.start, LastWindow.end)
       /\ \A i \in DOMAIN trace :
             trace[i].e \notin {"ingest_assets", "ingest_ctable",
                                "get_writer", "write"}

C4_Witness ==
    /\ last.call.op = "history_and_load"
    /\ last.covered
    /\ last.val # NoSeries
    /\ Count("history") = 1

(* C5, as claimed: in a chunk merge whose first writer.write fails with a
   failure other than overlapping data, the writer is evicted exactly once,
   a writer is acquired through get_writer and exactly one more write is
   made, on that writer; when that write fails too the failure leaves the
   call and nothing more is written.  When the first write does not fail
   that way there is no eviction and no second write. *)
C5_WriteRetryProtocol ==
    \A i \in DOMAIN trace :
       FirstWrite(i) =>
          IF trace[i].out = "error"
          THEN /\ Cardinality(EvictsOfChunk(ChunkOf(i))) = 1
               /\ i + 3 <= Len(trace)
               /\ trace[i + 1].e = "evict" /\ trace[i + 1].out = "writer"
               /\ trace[i + 1].p = trace[i].p
               /\ trace[i + 2].e = "get_writer"
               /\ trace[i + 2].out \in {"opened", "opened_meta"}
               /\ WritesOfChunk(ChunkOf(i)) = {i, i + 3}
               /\ trace[i + 3].id = trace[i + 2].id
               /\ trace[i + 3].out # "ok"
                     => i + 3 = Len(trace) /\ last.exc # "none"
          ELSE /\ EvictsOfChunk(ChunkOf(i)) = {}
               /\ WritesOfChunk(ChunkOf(i)) = {i}

(* C5, amended: in a chunk merge whose first writer.write fails with a
   failure other than overlapping data, the writer is evicted exactly once
   and get_writer is called for its path.  When get_writer returns a writer,
   exactly one more write is made, on that writer, and when that write fails
   too the failure leaves the call and nothing more is written; when
   get_writer fails, its failure leaves the call and no second write is
   made.  When the first write does not fail that way there is no eviction
   and no second write. *)
C5_WriteRetryWhenReacquired ==
    \A i \in DOMAIN trace :
       FirstWrite(i) =>
          IF trace[i].out = "error"
          THEN /\ Cardinality(EvictsOfChunk(ChunkOf(i))) = 1
               /\ i + 2 <= Len(trace)
               /\ trace[i + 1].e = "evict" /\ trace[i + 1].out = "writer"
               /\ trace[i + 1].p = trace[i].p
               /\ trace[i + 2].e = "get_writer"
               /\ trace[i + 2].out # "cached"
               /\ IF trace[i + 2].out \in {"opened", "opened_meta"}
                  THEN /\ i + 3 <= Len(trace)
                       /\ WritesOfChunk(ChunkOf(i)) = {i, i + 3}
                       /\ trace[i + 3].id = trace[i + 2].id
                       /\ trace[i + 3].out # "ok"
                             => i + 3 = Len(trace) /\ last.exc # "none"
                  ELSE /\ i + 2 = Len(trace)
                       /\ last.exc = "MetadataReadError"
                       /\ WritesOfChunk(ChunkOf(i)) = {i}
          ELSE /\ EvictsOfChunk(ChunkOf(i)) = {}
               /\ WritesOfChunk(ChunkOf(i)) = {i}

C5_Witness ==
    /\ last.exc = "WriteError"
    /\ \E i \in DOMAIN trace :
          /\ FirstWrite(i)
          /\ trace[i].out = "error"
          /\ WritesOfChunk(ChunkOf(i)) = {i, i + 3}
          /\ i + 3 = Len(trace)

(* C6, as claimed: a writer.write of a chunk merge that fails with
   overlapping data, be it the first attempt or the retried one, is not an
   error: the call does not end there with that failure. *)
C6_OverlapNeverAnError ==
    \A i \in EvIdx("write") :
       trace[i].out = "overlap"
       => ~(i = Len(trace) /\ last.exc = "BcolzMinuteOverlappingData")

(* C7, as claimed: when range_in_bundle(asset, s, e, reader) holds before
   prepare_chunks plans, no chunk planned for that asset has a
   [period_start, period_end] that intersects [s, e]. *)
C7_NoChunkIntersectsCovered ==
    last.call.op = "prepare_chunks"
    => \A i \in DOMAIN last.chunks, s \in Ticks, e \in Ticks :
          LET c == last.chunks[i]
          IN (s <= e /\ range_in_bundle(World, c.asset, s, e,
                                        readers[BundlePath(last.call.f)]))
             => ~(c.period_start <= e /\ s <= c.period_end)

(* C7, amended: when range_in_bundle(asset, s, e, reader) holds before
   prepare_chunks plans, no chunk planned for that asset has its probed
   range, from the last minute of the first day of the period (minute) or
   from the period start (daily) to period_end, inside [s, e]. *)
C7_NoChunkInsideCovered ==
    last.call.op = "prepare_chunks"
    => \A i \in DOMAIN last.chunks, s \in Ticks, e \in Ticks :
          LET c == last.chunks[i]
          IN (s <= e /\ range_in_bundle(World, c.asset, s, e,
                                        readers[BundlePath(last.call.f)]))
             => ~(s <= RangeStart(c.period_start, last.call.f)
                  /\ c.period_end <= e)

C7_Witness ==
    /\ last.call.op = "prepare_chunks"
    /\ \E i \in DOMAIN last.chunks, s \in Ticks, e \in Ticks :
          /\ s < e
          /\ range_in_bundle(World, last.chunks[i].asset, s, e,
                             readers[BundlePath(last.call.f)])
          /\ last.chunks[i].period_start <= e
          /\ s <= last.chunks[i].period_end

(* C8: in the result of one prepare_chunks call two distinct chunks of the
   same asset have different period labels and disjoint
   [period_start, period_end], and every chunk has
   period_start <= period_end. *)
C8_ChunksDoNotOverlap ==
    last.call.op \in {"prepare_chunks", "ingest_assets"}
    => /\ \A i \in DOMAIN last.chunks :
             last.chunks[i].period_start <= last.chunks[i].period_end
       /\ \A i \in DOMAIN last.chunks, j \in DOMAIN last.chunks :
             (i # j /\ last.chunks[i].asset = last.chunks[j].asset)
             => /\ last.chunks[i].period # last.chunks[j].period
                /\ \/ last.chunks[i].period_end < last.chunks[j].period_start
                   \/ last.chunks[j].period_end < last.chunks[i].period_start

C8_Witness ==
    /\ last.call.op = "prepare_chunks"
    /\ \E i \in DOMAIN last.chunks, j \in DOMAIN last.chunks :
          i # j /\ last.chunks[i].asset = last.chunks[j].asset

(* C9, as claimed: planning minute chunks on an empty store, for an asset
   whose first trading day D0 is in the calendar and is not the first day of
   its month, over a range that starts on or before D0 and ends after it,
   gives a chunk for the month of D0 with period_start = D0; there is at
   most one chunk per month of the range, and a chunk ends at end_minute in
   the last month of the asset and at the end of the month otherwise. *)
C9_FirstMonthClipped ==
    (/\ last.call.op = "prepare_chunks"
     /\ last.call.f = "minute"
     /\ store["minute"] = EmptyStore)
    => \A k \in DOMAIN last.call.assets :
          LET a == catalog[last.call.assets[k]]
              D0 == a.start_date
              mine == {i \in DOMAIN last.chunks : last.chunks[i].asset = a.sid}
          IN (/\ D0 >= first_session
              /\ get_month_start_end(D0)[1] < D0
              /\ last.call.a <= D0 /\ D0 < last.call.b)
             => /\ \E i \in mine :
                      /\ last.chunks[i].period = PeriodLabel(D0, "minute")
                      /\ last.chunks[i].period_start = D0
                /\ Cardinality(mine)
                      <= MonthOf(last.call.b) - MonthOf(last.call.a) + 1
                /\ \A i \in mine :
                      last.chunks[i].period_end =
                         IF MonthOf(last.chunks[i].period_start)
                               = MonthOf(a.end_minute)
                         THEN a.end_minute
                         ELSE get_month_start_end(last.chunks[i].period_start)[2]

----------------------------------------------------------------------------
(* The gaps of a merged chunk, from the definition *)

\* the rows of the last merged chunk that have an empty value
LastNanRows ==
    MissingPeriods(get_calendar_periods_range(last.call.a, last.call.b,
                                              last.call.f),
                   last.env.miss)

\* first, last of the maximal runs of S in which each element is d after
\* the one before it
MaximalRuns(S, d) ==
    {<<a, b>> \in S \X S :
        /\ a <= b
        /\ (a - d) \notin S
        /\ (b + d) \notin S
        /\ \A t \in a .. b : (t - a) % d = 0 => t \in S}

(* C10: the gap report of a chunk merge (with the policies that report:
   warn, and raise, where EmptyValuesInBundleError carries it) lists, in
   ascending order, first and last of every maximal run of missing periods
   in which each period is one delta after the one before it, and nothing
   else: {t1, t2, t3, t7} gives t1, t3, t7, t7 and a single t gives t, t. *)
C10_GapCompression ==
    \A i \in EvIdx("gaps") :
       LET dates == trace[i].p
           n == Len(dates) \div 2
           runs == MaximalRuns(LastNanRows, get_delta(1, last.call.f))
       IN /\ Len(dates) = 2 * n
          /\ n = Cardinality(runs)
          /\ \A k \in 1 .. n : <<dates[2 * k - 1], dates[2 * k]>> \in runs
          /\ \A k \in 1 .. (n - 1) : dates[2 * k] < dates[2 * k + 1]
          /\ (trace[i].out = "raise") =>
                (i = Len(trace) /\ last.exc = "EmptyValuesInBundleError")

C10_Witness ==
    /\ last.call.op = "ingest_ctable"
    /\ last.exc = "EmptyValuesInBundleError"
    /\ last.env.miss = {1, 2, 3, 7}
    /\ \E i \in EvIdx("gaps") :
          /\ Len(trace[i].p) = 4
          /\ trace[i].p[1] < trace[i].p[2]
          /\ trace[i].p[2] < trace[i].p[3]
          /\ trace[i].p[3] = trace[i].p[4]

----------------------------------------------------------------------------
(* C11, as claimed: clean("daily") removes the daily bundle directory only
   and leaves the minute bundle directory and symbols.json as they were;
   clean(None) removes both bundle directories, symbols.json and the
   staging tree. *)
C11_CleanDailyKeepsSymbols ==
    [][(last'.call.op = "clean")
       => IF last'.call.f = "daily"
          THEN /\ store'["daily"] = EmptyStore
               /\ store'["minute"] = store["minute"]
               /\ aux'.symbols = aux.symbols
          ELSE last'.call.f = "None"
               => /\ store' = [f \in Freqs |-> EmptyStore]
                  /\ ~aux'.symbols /\ ~aux'.temp /\ staging' = {}]_vars

(* C11, amended: clean of one frequency removes the bundle directory of that
   frequency, symbols.json and the staging tree, and leaves the bundle
   directory of the other frequency as it was; clean(None) removes both
   bundle directories, symbols.json and the staging tree. *)
C11_CleanFrame ==
    [][(last'.call.op = "clean")
       => /\ ~aux'.symbols /\ ~aux'.temp /\ staging' = {}
          /\ \A f \in Freqs :
                store'[f] = IF last'.call.f \in {f, "None"} THEN EmptyStore
                            ELSE store[f]]_vars

C11_Witness ==
    /\ last.call.op = "clean"
    /\ last.call.f = "daily"
    /\ store["daily"] = EmptyStore
    /\ store["minute"].rows # {}
    /\ ~aux.symbols

----------------------------------------------------------------------------
\* the get_reader calls of the last call, for one path
ReaderCalls(path) ==
    {i \in DOMAIN trace : trace[i].e \in {"open", "reader_hit"}
                          /\ trace[i].p = path}

\* j is the get_reader call for the path of i that comes next after i
NextReaderCall(i, j) ==
    /\ j \in ReaderCalls(trace[i].p)
    /\ i < j
    /\ \A k \in ReaderCalls(trace[i].p) : ~(i < k /\ k < j)

ReaderEvicted(i, j) ==
    \E k \in EvIdx("evict") :
       i < k /\ k < j /\ trace[k].out = "reader" /\ trace[k].p = trace[i].p

(* C12, as claimed: after a get_reader whose open attempt failed, the next
   get_reader for the same path, when the path was not invalidated in
   between, is answered from the cache: it makes no open attempt and returns
   no reader. *)
C12_AbsenceIsCached ==
    \A i \in EvIdx("open"), j \in DOMAIN trace :
       (trace[i].out = "None" /\ NextReaderCall(i, j) /\ ~ReaderEvicted(i, j))
       => trace[j].e = "reader_hit" /\ trace[j].out = "None"

(* C12, amended: a get_reader whose open attempt failed caches None for the
   path, and the next get_reader for the same path makes another open
   attempt; only a reader that was opened is returned from the cache without
   an open attempt. *)
C12_AbsenceIsRetried ==
    /\ \A i \in EvIdx("open"), j \in DOMAIN trace :
          (trace[i].out = "None" /\ NextReaderCall(i, j))
          => trace[j].e = "open"
    /\ \A i \in EvIdx("reader_hit") : trace[i].out = "Reader"
    /\ \A i \in EvIdx("open") :
          (trace[i].out = "None"
           /\ \A j \in DOMAIN trace : ~NextReaderCall(i, j))
          => /\ trace[i].p \in DOMAIN readers
             /\ readers[trace[i].p] = NoneReader

C12_Witness ==
    \E i \in EvIdx("open"), j \in EvIdx("open") :
       /\ trace[i].out = "None"
       /\ NextReaderCall(i, j)
       /\ ~ReaderEvicted(i, j)
       /\ trace[j].out = "Reader"

----------------------------------------------------------------------------
\* the get_writer calls of the last call that opened a writer on a bundle
\* that had metadata
OpenedOnContent ==
    {i \in EvIdx("get_writer") :
        /\ trace[i].out \in {"opened", "opened_meta"}
        /\ trace[i].p.before # <<>>}

(* C13: a writer that get_writer opens on a bundle that has content gets
   the range [min(existing.start, start_dt), max(existing.end, end_dt)],
   which contains the persisted range, and is told to persist the metadata
   exactly when that range differs from the persisted one; and no call
   other than clean makes the persisted range of a bundle shrink. *)
C13_MetadataOnlyGrows ==
    /\ [](\A i \in OpenedOnContent :
             LET e == trace[i].p
             IN /\ e.range[1] = IF e.req[1] < e.before[1]
                                THEN e.req[1] ELSE e.before[1]
                /\ e.range[2] = IF e.req[2] > e.before[2]
                                THEN e.req[2] ELSE e.before[2]
                /\ e.range[1] <= e.before[1] /\ e.before[2] <= e.range[2]
                /\ (trace[i].out = "opened_meta") <=> (e.range # e.before)
                /\ e.after = e.range)
    /\ [][\A f \in Freqs :
             (last'.call.op # "clean" /\ store[f].meta # <<>>)
             => /\ store'[f].meta # <<>>
                /\ store'[f].meta[1] <= store[f].meta[1]
                /\ store[f].meta[2] <= store'[f].meta[2]]_vars

C13_Witness ==
    \E i \in OpenedOnContent :
       /\ trace[i].out = "opened_meta"
       /\ trace[i].p.range[1] = trace[i].p.before[1]
       /\ trace[i].p.range[2] > trace[i].p.before[2]
       /\ trace[i].p.req[1] > trace[i].p.before[1]
       /\ store[trace[i].p.path[2]].meta = trace[i].p.range

----------------------------------------------------------------------------
\* get_adj_dates raises for the arguments of the last call
ScopeFails ==
    get_adj_dates(last.call.a, last.call.b, last.call.assets,
                  last.call.f).exc # "none"

\* no asset of the last call has, on its own, data in the range of the call
NoAssetInScope ==
    \A k \in DOMAIN last.call.assets :
       get_adj_dates(last.call.a, last.call.b, <<last.call.assets[k]>>,
                     last.call.f).exc # "none"

(* C14, as claimed: ingest_assets fails with NoDataAvailableOnExchange when
   the range of the call, adjusted to the asset set by get_adj_dates, is
   empty, unset or inverted; no writer is acquired and nothing is
   written. *)
C14_IngestAssetsScopeFailure ==
    (last.call.op = "ingest_assets" /\ ScopeFails)
    => /\ last.exc = "NoDataAvailableOnExchange"
       /\ Count("get_writer") = 0
       /\ Count("write") = 0

(* C14, amended: it is ingest that fails with NoDataAvailableOnExchange when
   the range adjusted to the asset set is empty, unset or inverted, before
   it calls ingest_assets: no writer is acquired and nothing is written.
   ingest_assets itself never fails with NoDataAvailableOnExchange: planning
   skips each asset that has no data in the range, and when that is every
   asset the plan is empty, nothing is written, and a call that completes
   has acquired one writer. *)
C14_ScopeFailure ==
    /\ (last.call.op = "ingest" /\ ScopeFails)
       => /\ last.exc = "NoDataAvailableOnExchange"
          /\ Count("ingest_assets") = 0
          /\ Count("get_writer") = 0
          /\ Count("write") = 0
    /\ (last.call.op = "ingest" /\ ~ScopeFails)
       => Count("ingest_assets") >= 1
    /\ last.call.op = "ingest_assets"
       => /\ last.exc # "NoDataAvailableOnExchange"
          /\ NoAssetInScope
             => /\ last.chunks = <<>>
                /\ Count("ingest_ctable") = 0
                /\ Count("write") = 0
                /\ last.exc = "none" => Count("get_writer") = 1

C14_Witness ==
    /\ last.call.op = "ingest"
    /\ ScopeFails
    /\ last.exc = "NoDataAvailableOnExchange"
    /\ Len(trace) = 1

----------------------------------------------------------------------------
(* C15, as claimed: a history read for which get_reader has no reader to
   give ends with PricingDataNotLoadedError, with reset_reader or without,
   the retried read of a read with backfill included, and that is the
   failure that reaches the caller of the read. *)
C15_NoReaderIsNotLoaded ==
    \A i \in EvIdx("history_ret") :
       (i > 1 /\ trace[i - 1].e = "open" /\ trace[i - 1].out = "None")
       => /\ trace[i].out = "PricingDataNotLoadedError"
          /\ last.call.op = "history" => last.exc = "PricingDataNotLoadedError"
          /\ trace[i].id = 1 => last.exc = "PricingDataNotLoadedError"

----------------------------------------------------------------------------
\* the first instant of the calendar at which the asset trades
FirstTrading(a) ==
    IF a.start_date > first_session THEN a.start_date ELSE first_session

(* C16, as claimed: for every asset of a prepare_chunks call that has data
   in the range of the call, and every period (month for minute, year for
   daily) that holds a session of the range adjusted to the asset, when the
   probed range of the period is not in the bundle for the asset the plan
   has a chunk of the asset with the label of the period; the period in
   which the asset starts trading part-way through is no exception. *)
C16_PlanningComplete ==
    last.call.op = "prepare_chunks"
    => \A k \in DOMAIN last.call.assets :
          LET a == catalog[last.call.assets[k]]
              f == last.call.f
              adj == get_adj_dates(last.call.a, last.call.b, <<a.sid>>, f)
          IN adj.exc = "none"
             => \A dt \in sessions_in_range(adj.start, adj.end) :
                   LET p == PeriodOf(a, f, dt, FirstTrading(a))
                   IN ~range_in_bundle(World, a.sid,
                                       RangeStart(p.period_start, f),
                                       p.period_end, readers[BundlePath(f)])
                      => \E i \in DOMAIN last.chunks :
                            /\ last.chunks[i].asset = a.sid
                            /\ last.chunks[i].period = PeriodLabel(dt, f)

----------------------------------------------------------------------------
(* The chunk merges, read from the trace *)

\* the write attempt of chunk merge k has completed: a write went through,
\* or the first write found the rows there and the overlap was swallowed
CompletedWrite(k) ==
    \E j \in WritesOfChunk(k) :
       \/ trace[j].out = "ok"
       \/ trace[j].out = "overlap" /\ FirstWrite(j)

\* the staging path of chunk k of the plan of the last ingest_assets
ChunkPath(k) ==
    get_bcolz_chunk(last.chunks[k].asset, last.call.f, last.chunks[k].period)

(* C17, as claimed: with the policies strip and warn the rows that have a
   missing field are dropped before the write, so that the data handed to
   writer.write has no such row; warn also logs the gap ranges. *)
C17_StripAndWarnDrop ==
    /\ \A i \in EvIdx("data") :
          trace[i].out \in {"strip", "warn"} => trace[i].p.nans = {}
    /\ (/\ last.call.op = "ingest_ctable"
        /\ last.val.policy = "warn"
        /\ LastNanRows # {}
        /\ Count("data") = 1)
       => Count("gaps") = 1

(* C18: a chunk merge with the policy raise whose dense table has a row
   with a missing field ends with EmptyValuesInBundleError, which carries
   the gap ranges; writer.write is not called and the rows of the store are
   what they were before the merge. *)
C18_RaiseWritesNothing ==
    [][(/\ last'.call.op = "ingest_ctable"
        /\ last'.val.policy = "raise"
        /\ LastNanRows' # {}
        /\ Count("ingest_ctable")' = 1)
       => /\ last'.exc = "EmptyValuesInBundleError"
          /\ trace'[Len(trace')].e = "gaps"
          /\ trace'[Len(trace')].out = "raise"
          /\ Len(trace'[Len(trace')].p) >= 2
          /\ Count("data")' = 0
          /\ Count("write")' = 0
          /\ \A f \in Freqs : /\ store'[f].rows = store[f].rows
                              /\ store'[f].nans = store[f].nans]_vars

C18_Witness ==
    /\ last.call.op = "ingest_ctable"
    /\ last.val.policy = "raise"
    /\ last.exc = "EmptyValuesInBundleError"
    /\ Count("write") = 0
    /\ store[last.call.f].rows # {}

(* C19: in a chunk merge the staging directory is removed only when cleanup
   is set and after the write attempt has completed (a write that went
   through or a swallowed overlap), never before a write; when the write
   attempt does not complete (the staged load failed, the gap check raised,
   the write failed twice) the staging directory that was fetched is
   still there after the merge. *)
C19_CleanupAfterWrite ==
    last.call.op = "ingest_ctable"
    => /\ \A i \in EvIdx("rmtree") :
             /\ last.val.cleanup
             /\ CompletedWrite(1)
             /\ \A j \in EvIdx("write") : j < i
             /\ trace[i].p \notin staging
       /\ (last.val.cleanup /\ CompletedWrite(1) /\ last.exc = "none")
          => Count("rmtree") = 1
       /\ \A c \in EvIdx("ingest_ctable") :
             (~CompletedWrite(1) /\ last.env.fetch)
             => /\ Count("rmtree") = 0
                /\ trace[c].p \in staging

C19_Witness ==
    /\ last.call.op = "ingest_ctable"
    /\ last.val.cleanup
    /\ Count("swallow") = 1
    /\ Count("rmtree") = 1
    /\ trace[Len(trace) - 1].e = "rmtree"

(* C20: a chunk merge whose staged data cannot be loaded returns the
   staging path and calls writer.write not once; ingest_assets then merges
   the chunk that comes next in the plan, and the chunks are merged in the
   order of the plan, all of them when the call completes. *)
C20_SkipDoesNotStopBatch ==
    /\ \A i \in EvIdx("skip") :
          /\ WritesOfChunk(ChunkOf(i)) = {}
          /\ i + 1 <= Len(trace)
          /\ trace[i + 1].e = "return"
          /\ trace[i + 1].p = trace[i].p
          /\ \E c \in EvIdx("ingest_ctable") :
                ChunkOf(c) = ChunkOf(i) /\ trace[c].p = trace[i].p
          /\ (last.call.op = "ingest_assets" /\ ChunkOf(i) < Len(last.chunks))
             => /\ i + 2 <= Len(trace)
                /\ trace[i + 2].e = "ingest_ctable"
                /\ trace[i + 2].p = ChunkPath(ChunkOf(i) + 1)
    /\ last.call.op = "ingest_assets"
       => /\ \A c \in EvIdx("ingest_ctable") :
                /\ ChunkOf(c) <= Len(last.chunks)
                /\ trace[c].p = ChunkPath(ChunkOf(c))
          /\ last.exc = "none" => Count("ingest_ctable") = Len(last.chunks)

C20_Witness ==
    /\ last.call.op = "ingest_assets"
    /\ last.exc = "none"
    /\ Len(last.chunks) >= 2
    /\ \E i \in EvIdx("skip") : ChunkOf(i) = 1
    /\ \E j \in EvIdx("write") : ChunkOf(j) = 2 /\ trace[j].out = "ok"

----------------------------------------------------------------------------
\* the whole period (month for minute, year for daily) that dt lies in
RawPeriod(dt, f) ==
    IF f = "minute" THEN get_month_start_end(dt) ELSE get_year_start_end(dt)

\* period_end of a chunk whose last-period test and clip use end_dt
ClippedEnd(c, f, end_dt) ==
    IF /\ RawPeriod(end_dt, f)[2] = RawPeriod(c.period_start, f)[2]
       /\ RawPeriod(c.period_start, f)[2] > end_dt
    THEN end_dt ELSE RawPeriod(c.period_start, f)[2]

(* C21, as claimed: in every plan, a chunk of the last tradable period of
   its asset ends at asset.end_minute when the frequency is minute and at
   asset.end_daily when the frequency is daily (the last-period test and
   the clipped value both use the end field of the requested frequency);
   any other chunk ends at the end of its period. *)
C21_LastPeriodClippedByFrequency ==
    last.call.op \in {"prepare_chunks", "ingest_assets"}
    => \A i \in DOMAIN last.chunks :
          last.chunks[i].period_end =
             ClippedEnd(last.chunks[i], last.call.f,
                        EndAsset(catalog[last.chunks[i].asset], last.call.f))

----------------------------------------------------------------------------
\* the get_writer calls of a trace, in order
WriterCalls(tr) == {i \in DOMAIN tr : tr[i].e = "get_writer"}

\* start_session, end_session of the handle that the first get_writer of the
\* trace tr returned, ws being the writer cache before the call
AcquiredRange(tr, ws) ==
    LET i == SetMin(WriterCalls(tr))
    IN IF tr[i].out = "cached"
       THEN <<ws[tr[i].p].start_session, ws[tr[i].p].end_session>>
       ELSE tr[i].p.range

(* C22, as claimed: in every ingest_assets call that acquires its writer,
   the range of the writer through which the chunks are merged contains
   [period_start, period_end] of every chunk of the plan, also when the
   writer of the store path was cached by an earlier call on the bundle. *)
C22_WriterCoversPlan ==
    [][(/\ last'.call.op = "ingest_assets"
        /\ \E i \in WriterCalls(trace') : trace'[i].out # "no_metadata")
       => \A k \in DOMAIN last'.chunks :
             /\ AcquiredRange(trace', writers)[1] <= last'.chunks[k].period_start
             /\ last'.chunks[k].period_end <= AcquiredRange(trace', writers)[2]]_vars

----------------------------------------------------------------------------
(* The writer cache, followed through the trace of a call *)

\* the events before event i of tr that put a writer for path in the cache
\* or take it out
CacheChanges(tr, i, path) ==
    {j \in 1 .. (i - 1) :
        \/ /\ tr[j].e = "get_writer"
           /\ tr[j].out \in {"opened", "opened_meta"}
           /\ tr[j].p.path = path
        \/ tr[j].e = "evict" /\ tr[j].out = "writer" /\ tr[j].p = path}

\* the id of the writer cached for path just before event i of tr, ws being
\* the cache before the call; None when no writer is cached
CachedId(tr, ws, i, path) ==
    IF CacheChanges(tr, i, path) = {}
    THEN IF path \in DOMAIN ws THEN ws[path].id ELSE None
    ELSE IF tr[SetMax(CacheChanges(tr, i, path))].e = "evict" THEN None
    ELSE tr[SetMax(CacheChanges(tr, i, path))].id

\* the path a get_writer event is about
WriterPath(ev) == IF ev.out \in {"opened", "opened_meta"} THEN ev.p.path ELSE ev.p

(* C23: a get_writer for a path that has a writer in the cache returns that
   handle and reads or writes no metadata, whatever range it is asked for,
   and a get_writer for a path without a cached writer is never a cache
   hit: a new writer is opened for a path that was cached only after the
   path was evicted.  A call in which the path is neither evicted nor
   opened leaves the cached handle, its range and the persisted metadata
   as they were (clean, which removes the folder, apart). *)
C23_CacheHitUnconditional ==
    [][/\ \A i \in WriterCalls(trace') :
            IF CachedId(trace', writers, i, WriterPath(trace'[i])) # None
            THEN /\ trace'[i].out = "cached"
                 /\ trace'[i].id = CachedId(trace', writers, i,
                                            WriterPath(trace'[i]))
            ELSE trace'[i].out # "cached"
       /\ \A path \in DOMAIN writers :
            CacheChanges(trace', Len(trace') + 1, path) = {}
            => /\ path \in DOMAIN writers'
               /\ writers'[path] = writers[path]
               /\ last'.call.op # "clean"
                  => store'[path[2]].meta = store[path[2]].meta]_vars

\* an ingest_assets call is served the cached writer although the range it
\* asks for ends after the range of that writer
C23_Witness ==
    /\ last.call.op = "ingest_assets"
    /\ \E i \in WriterCalls(trace) :
          /\ trace[i].out = "cached"
          /\ trace[i].p \in DOMAIN writers
          /\ writers[trace[i].p].id = trace[i].id
          /\ ExpandRange(last.chunks, 1, last.call.a, last.call.b)[2]
                > writers[trace[i].p].end_session

----------------------------------------------------------------------------
\* the get_writer calls of the trace that re-open the writer in a retry:
\* each comes right after the eviction
Reopenings ==
    {g \in WriterCalls(trace) :
        g > 1 /\ trace[g - 1].e = "evict" /\ trace[g - 1].out = "writer"}

(* C24: in an ingest_assets call the writer is acquired once, before the
   first chunk is merged, and every other get_writer of the call is the
   re-opening of a retry; the first write of every chunk goes through the
   handle that was acquired.  After a retry has re-opened the writer, the
   cache holds the re-opened writer and not the handle of the loop, so
   the first write of a later chunk goes through a handle that is not the
   cached one.  The cache holds one writer per store path, under the path
   of that writer. *)
C24_LoopKeepsItsHandle ==
    /\ DOMAIN writers \subseteq {BundlePath(f) : f \in Freqs}
    /\ \A path \in DOMAIN writers : writers[path].rootdir = path
    /\ (last.call.op = "ingest_assets" /\ WriterCalls(trace) # {})
       => /\ \A c \in EvIdx("ingest_ctable") : SetMin(WriterCalls(trace)) < c
          /\ WriterCalls(trace) \ Reopenings = {SetMin(WriterCalls(trace))}
          /\ \A j \in EvIdx("write") :
                FirstWrite(j)
                => /\ trace[j].id = trace[SetMin(WriterCalls(trace))].id
                   /\ \A g \in Reopenings :
                         (g < j /\ trace[g].out # "no_metadata")
                         => /\ CachedId(trace, <<>>, j, trace[j].p) # None
                            /\ CachedId(trace, <<>>, j, trace[j].p) # trace[j].id

\* the first write of the first chunk failed and was retried through a
\* re-opened writer, and the first write of the second chunk went through
\* the handle of the loop, which the cache no longer holds
C24_Witness ==
    /\ last.call.op = "ingest_assets"
    /\ last.exc = "none"
    /\ \E g \in Reopenings :
          /\ ChunkOf(g) = 1
          /\ trace[g].out # "no_metadata"
          /\ \E j \in EvIdx("write") :
                /\ FirstWrite(j)
                /\ ChunkOf(j) = 2
                /\ trace[j].id = trace[SetMin(WriterCalls(trace))].id
                /\ trace[j].p \in DOMAIN writers
                /\ writers[trace[j].p].id = trace[g].id
                /\ writers[trace[j].p].id # trace[j].id

====
